---- MODULE Spec2Model ----
(***************************************************************************)
(* The CSV reviewer of src/main.py as a state machine: the main window     *)
(* (load_csv, annotate_rows, save_csv), the row overview dialog (the row   *)
(* cursor with its nine yes/no combo boxes) and the detailed               *)
(* classification dialog (the nine-question drill-down).                   *)
(*                                                                         *)
(* A text value is a sequence of one-character strings, so that            *)
(* str.strip() and str.lower() are computed and not assumed.  Python's     *)
(* None is the one-element sequence None, which is no text.                *)
(* Indices are 0-based as in the source; Sequences are 1-based, so row i  *)
(* of the source is data[i + 1].                                           *)
(***************************************************************************)
EXTENDS Integers, Sequences, FiniteSets, TLC

VARIABLES
    model,           \* MainWindow.model: NoModel, or [data, headers] of the CSVTableModel
    csv_file_path,   \* MainWindow.csv_file_path: NoPath or the file last loaded
    annotate_btn,    \* annotate_btn.isEnabled()
    save_btn,        \* save_btn.isEnabled()
    msg,             \* title of the QMessageBox the last handler showed, "" if none
    out_file,        \* what the last handler wrote under results/, NoOutput if nothing
    crashed,         \* an exception left a slot: PyQt5 aborts the process
    overview,        \* RowOverviewWindow: "none", "exec", "Accepted", "Rejected"
    current_index,   \* RowOverviewWindow.current_index
    error_combos,    \* currentText() of the nine combo boxes of the row overview
    combos_enabled,  \* isEnabled() of those combo boxes
    detail_btn,      \* detail_btn.isEnabled()
    detail,          \* DetailedClassificationWindow: "none", "exec", "Accepted", "Rejected"
    current_answers, \* the initial_values the drill-down was constructed with
    responses,       \* DetailedClassificationWindow.responses
    current_idx,     \* DetailedClassificationWindow.current_idx
    answer_combo,    \* answer_combo.currentText()
    edits            \* selections the user made since the last load (bounded)

mainVars == <<model, csv_file_path, annotate_btn, save_btn>>
overviewVars == <<overview, current_index, error_combos, combos_enabled, detail_btn>>
detailVars == <<detail, current_answers, responses, current_idx, answer_combo>>
vars == <<model, csv_file_path, annotate_btn, save_btn, msg, out_file, crashed,
          overview, current_index, error_combos, combos_enabled, detail_btn,
          detail, current_answers, responses, current_idx, answer_combo, edits>>

----------------------------------------------------------------------------
(* Bounds *)

\* rows of the largest input file
MaxRows == 3
\* combo box selections the user makes between two loads
MaxEdits == 1

----------------------------------------------------------------------------
(* Text values *)

None == <<"None">>
EmptyStr == <<>>
YES == <<"Y", "e", "s">>
NO == <<"N", "o">>
MAYBE == <<"M", "a", "y", "b", "e">>
LowerYes == <<"y", "e", "s">>
STR_true == <<"t", "r", "u", "e">>
STR_True == <<" ", "T", "r", "u", "e">>
STR_TRUE == <<"T", "R", "U", "E", " ">>
STR_False == <<"F", "a", "l", "s", "e">>
STR_q == <<"q">>
STR_a == <<"a">>
STR_p == <<"p">>

Range(s) == {s[i] : i \in 1..Len(s)}

Whitespace == {" ", "\t", "\n"}

lower_char(c) ==
    CASE c = "T" -> "t"
      [] c = "R" -> "r"
      [] c = "U" -> "u"
      [] c = "E" -> "e"
      [] c = "F" -> "f"
      [] c = "Y" -> "y"
      [] c = "N" -> "n"
      [] c = "M" -> "m"
      [] OTHER -> c

lower(s) == [i \in 1..Len(s) |-> lower_char(s[i])]

RECURSIVE lstrip(_)
lstrip(s) == IF s # <<>> /\ Head(s) \in Whitespace THEN lstrip(Tail(s)) ELSE s

RECURSIVE rstrip(_)
rstrip(s) ==
    IF s # <<>> /\ s[Len(s)] \in Whitespace THEN rstrip(SubSeq(s, 1, Len(s) - 1)) ELSE s

strip(s) == rstrip(lstrip(s))

----------------------------------------------------------------------------
(* Module constants of main.py *)

ERROR_COLUMNS ==
    <<"Grammar", "Factuality", "Hallucination", "Redundancy", "Repetition",
      "Missing Step", "Coherency", "Commonsense", "Arithmetic">>

FIXED_COLUMNS == <<"question", "true_answer", "predicted_answer_full", "is_correct">>

REQUIRED_COLUMNS == FIXED_COLUMNS \o ERROR_COLUMNS

ErrorSet == Range(ERROR_COLUMNS)

\* len(self.error_keys)
NumErrors == Len(ERROR_COLUMNS)

\* the items of every combo box: addItems(["No", "Yes"])
ComboItems == {NO, YES}

\* QComboBox.setCurrentText on a non-editable box: selects the item with that
\* text, and leaves the selection alone when no item has it
setCurrentText(cur, text) == IF text \in ComboItems THEN text ELSE cur

\* dict.get(key, default)
get(row, key, default) == IF key \in DOMAIN row THEN row[key] ELSE default

\* row.get("is_correct", "") is None: .strip() raises AttributeError
is_correct_raises(row) == get(row, "is_correct", EmptyStr) = None

\* the flag compared without strip()
is_correct_unstripped(row) == lower(get(row, "is_correct", EmptyStr)) = STR_true

\* row.get("is_correct", "").strip().lower() == "true"
is_correct(row) == lower(strip(get(row, "is_correct", EmptyStr))) = STR_true

----------------------------------------------------------------------------
(* csv.DictReader / csv.DictWriter *)

\* the key under which DictReader stores the cells beyond the last field name
RestKey == "<restkey>"

IndexOf(seq, x) == CHOOSE i \in 1..Len(seq) : seq[i] = x /\ \A j \in (i + 1)..Len(seq) : seq[j] # x

\* DictReader.__next__: dict(zip(fieldnames, row)), the surplus cells under
\* restkey (None), the missing ones set to restval (None)
DictReaderRow(fieldnames, cells) ==
    LET lf == Len(fieldnames)
        lr == Len(cells)
        base == [k \in Range(fieldnames) |->
                    IF IndexOf(fieldnames, k) <= lr THEN cells[IndexOf(fieldnames, k)] ELSE None]
    IN  IF lr > lf THEN base @@ (RestKey :> SubSeq(cells, lf + 1, lr)) ELSE base

\* list(reader): blank lines are skipped
DictReaderRows(fieldnames, lines) ==
    LET kept == SelectSeq(lines, LAMBDA l : l # <<>>)
    IN  [i \in 1..Len(kept) |-> DictReaderRow(fieldnames, kept[i])]

\* for col in ERROR_COLUMNS: if col not in headers: headers.append(col)
RECURSIVE AppendMissing(_, _)
AppendMissing(headers, k) ==
    IF k > NumErrors THEN headers
    ELSE AppendMissing(IF ERROR_COLUMNS[k] \in Range(headers) THEN headers
                       ELSE Append(headers, ERROR_COLUMNS[k]), k + 1)

\* for col in ERROR_COLUMNS: if col not in row: row[col] = "No"
FillMissing(row) ==
    [k \in DOMAIN row \cup ErrorSet |-> IF k \in DOMAIN row THEN row[k] ELSE NO]

\* DictWriter.writerow raises ValueError for a key that is no field name
writerow_raises(fieldnames, row) == \E k \in DOMAIN row : k \notin Range(fieldnames)

\* a writer that emits "No" for a value that is None
writerow_none_as_no(fieldnames, row) ==
    [i \in 1..Len(fieldnames) |->
        LET v == get(row, fieldnames[i], EmptyStr) IN IF v = None THEN NO ELSE v]

\* DictWriter._dict_to_list and the writer: a missing key is restval "", None is written as ""
writerow(fieldnames, row) ==
    [i \in 1..Len(fieldnames) |->
        LET v == get(row, fieldnames[i], EmptyStr) IN IF v = None THEN EmptyStr ELSE v]

----------------------------------------------------------------------------
(* The input files the user can pick: what csv.reader makes of their text *)

\* the cells of one text line, by column name
Cells(is_corr, grammar, coherency, arithmetic) ==
    [k \in Range(REQUIRED_COLUMNS) |->
        CASE k = "question" -> STR_q
          [] k = "true_answer" -> STR_a
          [] k = "predicted_answer_full" -> STR_p
          [] k = "is_correct" -> is_corr
          [] k = "Grammar" -> grammar
          [] k = "Coherency" -> coherency
          [] k = "Arithmetic" -> arithmetic
          [] OTHER -> NO]

\* one text line under the header `header`: an annotated wrong answer with
\* malformed tokens, a correct answer carrying category values, a correct answer
\* with one cell too many, a line cut after two cells, a blank line, a second
\* wrong answer with other tokens
Variants == <<"wrong", "correct", "surplus", "short", "blank", "plain">>

Line(header, v) ==
    LET full(c) == [i \in 1..Len(header) |-> c[header[i]]]
    IN  CASE v = "wrong" -> full(Cells(STR_False, YES, LowerYes, MAYBE))
          [] v = "correct" -> full(Cells(STR_True, YES, NO, MAYBE))
          [] v = "surplus" -> Append(full(Cells(STR_TRUE, NO, NO, NO)), YES)
          [] v = "short" -> SubSeq(full(Cells(STR_False, NO, NO, NO)), 1, 2)
          [] v = "plain" -> full(Cells(STR_False, MAYBE, NO, YES))
          [] OTHER -> <<>>

FullHeader == REQUIRED_COLUMNS
FixedHeader == FIXED_COLUMNS
PartialHeader == <<"is_correct", "Grammar", "question", "true_answer", "predicted_answer_full">>
NoFlagHeader == <<"question", "true_answer", "predicted_answer_full">> \o ERROR_COLUMNS

\* which variant the first line of a file is
Rotations == 0..2

\* the file of the two wrong answers, one after the other
PlainFirst == Len(Variants) - 1

Paths ==
    {p \in [kind : {"full", "fixed", "partial"}, n : 0..MaxRows, rot : Rotations] :
        p.n = 0 => p.rot = 0}
        \cup [kind : {"full"}, n : {2}, rot : {PlainFirst}]
        \cup [kind : {"noflag"}, n : {0, 1}, rot : {0}]
        \cup [kind : {"unreadable", "empty", "corrupt"}, n : {0}, rot : {0}]

\* reader.fieldnames: the cells of the first line, None for a file without one
FileHeader(path) ==
    CASE path.kind = "full" -> FullHeader
      [] path.kind = "fixed" -> FixedHeader
      [] path.kind = "partial" -> PartialHeader
      [] path.kind = "noflag" -> NoFlagHeader
      [] OTHER -> None

FileLines(path) ==
    [i \in 1..path.n |->
        Line(FileHeader(path), Variants[((path.rot + i - 1) % Len(Variants)) + 1])]

----------------------------------------------------------------------------
(* State after MainWindow.__init__ *)

NoModel == [data |-> <<>>, headers |-> <<>>, none |-> TRUE]
NoPath == [kind |-> "none", n |-> 0, rot |-> 0]
NoOutput == [header |-> <<>>, rows |-> <<>>, written |-> FALSE]
NoSeed == [c \in {} |-> NO]
AllNo == [c \in ErrorSet |-> NO]

CSVTableModel(data, headers) == [data |-> data, headers |-> headers, none |-> FALSE]

\* no RowOverviewWindow exists
NoOverview ==
    /\ overview' = "none"
    /\ current_index' = 0
    /\ error_combos' = AllNo
    /\ combos_enabled' = TRUE
    /\ detail_btn' = TRUE

\* no DetailedClassificationWindow exists
NoDetail ==
    /\ detail' = "none"
    /\ current_answers' = NoSeed
    /\ responses' = NoSeed
    /\ current_idx' = 0
    /\ answer_combo' = NO

Init ==
    /\ model = NoModel
    /\ csv_file_path = NoPath
    /\ annotate_btn = FALSE
    /\ save_btn = FALSE
    /\ msg = ""
    /\ out_file = NoOutput
    /\ crashed = FALSE
    /\ overview = "none"
    /\ current_index = 0
    /\ error_combos = AllNo
    /\ combos_enabled = TRUE
    /\ detail_btn = TRUE
    /\ detail = "none"
    /\ current_answers = NoSeed
    /\ responses = NoSeed
    /\ current_idx = 0
    /\ answer_combo = NO
    /\ edits = 0

\* the main window takes input: no modal dialog is executing
MainIdle == ~crashed /\ overview = "none" /\ detail = "none"

----------------------------------------------------------------------------
(* MainWindow.load_csv *)

\* the header after augmentation, as load_csv leaves it
LoadHeaders(path) == AppendMissing(FileHeader(path), 1)

\* the check made against the category names only
Missing_categories_only(headers) == {c \in ErrorSet : c \notin Range(headers)}

\* missing = [c for c in REQUIRED_COLUMNS if c not in headers]
Missing(headers) == {c \in Range(REQUIRED_COLUMNS) : c \notin Range(headers)}

\* a load that stores "No" for every category token other than "Yes" and "No"
LoadData_normalizing(path) ==
    LET data == DictReaderRows(LoadHeaders(path), FileLines(path))
    IN  [i \in 1..Len(data) |->
            [k \in DOMAIN data[i] \cup ErrorSet |->
                IF k \in ErrorSet
                THEN IF get(data[i], k, NO) \in {YES, NO} THEN data[i][k] ELSE NO
                ELSE data[i][k]]]

\* data = list(reader), then the default for the category keys a row lacks
LoadData(path) ==
    LET data == DictReaderRows(LoadHeaders(path), FileLines(path))
    IN  [i \in 1..Len(data) |-> FillMissing(data[i])]

\* open() or the reader raises, or the file has no header line (fieldnames is
\* None and `col not in headers` raises TypeError)
LoadRaises(path) == path.kind \in {"unreadable", "empty", "corrupt"}

load_csv(path) ==
    /\ MainIdle
    /\ out_file' = NoOutput
    /\ UNCHANGED <<crashed, overviewVars, detailVars>>
    /\ IF LoadRaises(path)
       THEN /\ msg' = "Failed to load CSV"
            /\ UNCHANGED <<mainVars, edits>>
       ELSE IF Missing(LoadHeaders(path)) # {}
       THEN /\ msg' = "CSV is missing required columns"
            /\ UNCHANGED <<mainVars, edits>>
       ELSE /\ model' = CSVTableModel(LoadData(path), LoadHeaders(path))
            /\ csv_file_path' = path
            /\ annotate_btn' = TRUE
            /\ save_btn' = TRUE
            /\ msg' = ""
            /\ edits' = 0

----------------------------------------------------------------------------
(* MainWindow.save_csv *)

\* the rows written before writerow raises (all of them if it never does)
RECURSIVE WrittenUpTo(_, _, _)
WrittenUpTo(headers, data, i) ==
    IF i > Len(data) \/ writerow_raises(headers, FillMissing(data[i])) THEN i - 1
    ELSE WrittenUpTo(headers, data, i + 1)

save_csv ==
    /\ MainIdle
    /\ UNCHANGED <<csv_file_path, annotate_btn, save_btn, crashed, overviewVars,
                   detailVars, edits>>
    /\ IF model.none \/ csv_file_path = NoPath
       THEN /\ msg' = "No CSV loaded."
            /\ out_file' = NoOutput
            /\ UNCHANGED model
       ELSE LET headers == AppendMissing(model.headers, 1)
                data == model.data
                w == WrittenUpTo(headers, data, 1)
                \* the loop fills every row it reaches, the raising one included
                reached == IF w < Len(data) THEN w + 1 ELSE w
                filled == [i \in 1..Len(data) |->
                              IF i <= reached THEN FillMissing(data[i]) ELSE data[i]]
            IN  \/ \* open(out_path, "w") raises
                   /\ msg' = "Failed to save CSV"
                   /\ out_file' = NoOutput
                   /\ model' = CSVTableModel(data, headers)
                \/ /\ msg' = IF w < Len(data) THEN "Failed to save CSV" ELSE "CSV saved"
                   /\ out_file' = [header |-> headers,
                                   rows |-> [i \in 1..w |-> writerow(headers, filled[i])],
                                   written |-> TRUE]
                   /\ model' = CSVTableModel(filled, headers)

----------------------------------------------------------------------------
(* RowOverviewWindow *)

\* the widgets of the row overview, as one value
UI == [current_index |-> current_index, error_combos |-> error_combos,
       combos_enabled |-> combos_enabled, detail_btn |-> detail_btn, raised |-> FALSE]

SetOverview(ui) ==
    /\ current_index' = ui.current_index
    /\ error_combos' = ui.error_combos
    /\ combos_enabled' = ui.combos_enabled
    /\ detail_btn' = ui.detail_btn

\* setPlainText(None) raises TypeError, None.strip() raises AttributeError
load_row_raises(row) ==
    \/ get(row, "question", EmptyStr) = None
    \/ get(row, "true_answer", EmptyStr) = None
    \/ get(row, "predicted_answer_full", EmptyStr) = None
    \/ is_correct_raises(row)

\* val = row.get(col, ""); if val not in ["Yes", "No"]: val = "No"
NormalizeToken(val) == IF val \in {YES, NO} THEN val ELSE NO

\* load_row_into_ui that sets a combo box of an unlocked row only for a stored
\* "Yes" or "No", and leaves it as it is otherwise
load_row_into_ui_keeping(ui, data, index) ==
    IF index < 0 \/ index >= Len(data) THEN ui
    ELSE LET row == data[index + 1]
         IN  IF load_row_raises(row)
             THEN [ui EXCEPT !.current_index = index, !.raised = TRUE]
             ELSE IF is_correct(row)
             THEN [current_index |-> index,
                   error_combos |-> [c \in ErrorSet |-> setCurrentText(ui.error_combos[c], NO)],
                   combos_enabled |-> FALSE,
                   detail_btn |-> FALSE,
                   raised |-> FALSE]
             ELSE [current_index |-> index,
                   error_combos |-> [c \in ErrorSet |->
                       setCurrentText(ui.error_combos[c], get(row, c, EmptyStr))],
                   combos_enabled |-> TRUE,
                   detail_btn |-> TRUE,
                   raised |-> FALSE]

load_row_into_ui(ui, data, index) ==
    IF index < 0 \/ index >= Len(data) THEN ui
    ELSE LET row == data[index + 1]
         IN  IF load_row_raises(row)
             THEN [ui EXCEPT !.current_index = index, !.raised = TRUE]
             ELSE IF is_correct(row)
             THEN [current_index |-> index,
                   error_combos |-> [c \in ErrorSet |-> setCurrentText(ui.error_combos[c], NO)],
                   combos_enabled |-> FALSE,
                   detail_btn |-> FALSE,
                   raised |-> FALSE]
             ELSE [current_index |-> index,
                   error_combos |-> [c \in ErrorSet |->
                       setCurrentText(ui.error_combos[c],
                                      NormalizeToken(get(row, c, EmptyStr)))],
                   combos_enabled |-> TRUE,
                   detail_btn |-> TRUE,
                   raised |-> FALSE]

\* RowOverviewWindow.__init__: the combo boxes start at their first item "No"
RowOverviewWindow(data, row_number) ==
    load_row_into_ui([current_index |-> row_number - 1, error_combos |-> AllNo,
                      combos_enabled |-> TRUE, detail_btn |-> TRUE, raised |-> FALSE],
                     data, row_number - 1)

save_current_row_raises(data, index) ==
    0 <= index /\ index < Len(data) /\ is_correct_raises(data[index + 1])

\* save_current_row that leaves a row marked correct unwritten
save_current_row_skip_locked(data, index, combos) ==
    IF 0 <= index /\ index < Len(data) /\ ~is_correct_raises(data[index + 1])
          /\ ~is_correct(data[index + 1])
    THEN LET row == data[index + 1]
         IN  [data EXCEPT ![index + 1] =
                 [k \in DOMAIN row \cup ErrorSet |->
                     IF k \in ErrorSet THEN combos[k] ELSE row[k]]]
    ELSE data

\* save_current_row that also clears the is_correct flag of a row marked correct
save_current_row_unlocking(data, index, combos) ==
    IF 0 <= index /\ index < Len(data) /\ ~is_correct_raises(data[index + 1])
    THEN LET row == data[index + 1]
         IN  [data EXCEPT ![index + 1] =
                 [k \in DOMAIN row \cup ErrorSet |->
                     IF k \in ErrorSet
                     THEN IF is_correct(row) THEN NO ELSE combos[k]
                     ELSE IF k = "is_correct" /\ is_correct(row) THEN STR_False
                     ELSE row[k]]]
    ELSE data

\* save_current_row that writes the trimmed, lower-cased is_correct back
save_current_row_trimming(data, index, combos) ==
    IF 0 <= index /\ index < Len(data) /\ ~is_correct_raises(data[index + 1])
    THEN LET row == data[index + 1]
             locked == is_correct(row)
         IN  [data EXCEPT ![index + 1] =
                 [k \in DOMAIN row \cup ErrorSet \cup {"is_correct"} |->
                     IF k \in ErrorSet
                     THEN IF locked THEN NO ELSE combos[k]
                     ELSE IF k = "is_correct"
                     THEN lower(strip(get(row, "is_correct", EmptyStr)))
                     ELSE row[k]]]
    ELSE data

save_current_row(data, index, combos) ==
    IF 0 <= index /\ index < Len(data) /\ ~is_correct_raises(data[index + 1])
    THEN LET row == data[index + 1]
             locked == is_correct(row)
         IN  [data EXCEPT ![index + 1] =
                 [k \in DOMAIN row \cup ErrorSet |->
                     IF k \in ErrorSet
                     THEN IF locked THEN NO ELSE combos[k]
                     ELSE row[k]]]
    ELSE data

\* the bound of next() off by one
HasNextRow_inclusive(index, data) == index + 1 <= Len(data)

\* if self.current_index + 1 < len(self.csv_data)
HasNextRow(index, data) == index + 1 < Len(data)

\* if self.current_index > 0
HasPreviousRow(index) == index > 0

\* the row overview takes input: it executes and no drill-down is open over it
OverviewActive == ~crashed /\ overview = "exec" /\ detail = "none"

----------------------------------------------------------------------------
(* MainWindow.annotate_rows *)

\* annotate_rows without the test for an empty row list
annotate_rows_unguarded ==
    /\ MainIdle
    /\ out_file' = NoOutput
    /\ UNCHANGED <<mainVars, detailVars, edits>>
    /\ IF model.none
       THEN /\ msg' = ""
            /\ UNCHANGED <<crashed, overviewVars>>
       ELSE LET ui == RowOverviewWindow(model.data, 1)
            IN  /\ SetOverview(ui)
                /\ overview' = "exec"
                /\ crashed' = ui.raised
                /\ msg' = ""

annotate_rows ==
    /\ MainIdle
    /\ out_file' = NoOutput
    /\ UNCHANGED <<mainVars, detailVars, edits>>
    /\ IF model.none
       THEN /\ msg' = ""
            /\ UNCHANGED <<crashed, overviewVars>>
       ELSE IF model.data = <<>>
       THEN /\ msg' = "No rows to annotate."
            /\ UNCHANGED <<crashed, overviewVars>>
       ELSE LET ui == RowOverviewWindow(model.data, 1)
            IN  /\ SetOverview(ui)
                /\ overview' = "exec"
                /\ crashed' = ui.raised
                /\ msg' = ""

\* dialog.exec_() has returned: table_view.reset(), and the dialog is gone
annotate_rows_return ==
    /\ ~crashed
    /\ overview \in {"Accepted", "Rejected"}
    /\ NoOverview
    /\ msg' = ""
    /\ out_file' = NoOutput
    /\ UNCHANGED <<mainVars, crashed, detailVars, edits>>

----------------------------------------------------------------------------
(* The handlers of the row overview *)

\* the categories whose answer the user changes: the first, one in the middle
\* and the last
EditedColumns == {"Grammar", "Coherency", "Arithmetic"}

\* the user picks an item of one of the combo boxes
SelectCombo(col, val) ==
    /\ OverviewActive
    /\ combos_enabled
    /\ edits < MaxEdits
    /\ val # error_combos[col]
    /\ error_combos' = [error_combos EXCEPT ![col] = val]
    /\ edits' = edits + 1
    /\ msg' = ""
    /\ out_file' = NoOutput
    /\ UNCHANGED <<mainVars, crashed, overview, current_index, combos_enabled,
                   detail_btn, detailVars>>

\* next() that writes the row only when the cursor moves on
save_and_next_row_commit_on_move ==
    /\ OverviewActive
    /\ out_file' = NoOutput
    /\ UNCHANGED <<csv_file_path, annotate_btn, save_btn, detailVars, edits>>
    /\ IF save_current_row_raises(model.data, current_index)
       THEN /\ crashed' = TRUE
            /\ msg' = ""
            /\ UNCHANGED <<model, overviewVars>>
       ELSE IF HasNextRow(current_index, model.data)
       THEN LET data == save_current_row(model.data, current_index, error_combos)
                ui == load_row_into_ui([UI EXCEPT !.current_index = current_index + 1],
                                       data, current_index + 1)
            IN  /\ model' = [model EXCEPT !.data = data]
                /\ SetOverview(ui)
                /\ crashed' = ui.raised
                /\ msg' = ""
                /\ UNCHANGED overview
       ELSE /\ msg' = "No more rows to annotate."
            /\ overview' = "Rejected"
            /\ UNCHANGED <<model, crashed, current_index, error_combos,
                           combos_enabled, detail_btn>>

save_and_next_row ==
    /\ OverviewActive
    /\ out_file' = NoOutput
    /\ UNCHANGED <<csv_file_path, annotate_btn, save_btn, detailVars, edits>>
    /\ IF save_current_row_raises(model.data, current_index)
       THEN /\ crashed' = TRUE
            /\ msg' = ""
            /\ UNCHANGED <<model, overviewVars>>
       ELSE LET data == save_current_row(model.data, current_index, error_combos)
            IN  /\ model' = [model EXCEPT !.data = data]
                /\ IF HasNextRow(current_index, data)
                   THEN LET ui == load_row_into_ui(
                                      [UI EXCEPT !.current_index = current_index + 1],
                                      data, current_index + 1)
                        IN  /\ SetOverview(ui)
                            /\ crashed' = ui.raised
                            /\ msg' = ""
                            /\ UNCHANGED overview
                   ELSE /\ msg' = "No more rows to annotate."
                        /\ overview' = "Rejected"
                        /\ UNCHANGED <<crashed, current_index, error_combos,
                                       combos_enabled, detail_btn>>

\* previous() that closes the dialog at the first row, as next() does at the last
save_and_previous_row_closing ==
    /\ OverviewActive
    /\ out_file' = NoOutput
    /\ UNCHANGED <<csv_file_path, annotate_btn, save_btn, detailVars, edits>>
    /\ IF save_current_row_raises(model.data, current_index)
       THEN /\ crashed' = TRUE
            /\ msg' = ""
            /\ UNCHANGED <<model, overviewVars>>
       ELSE LET data == save_current_row(model.data, current_index, error_combos)
            IN  /\ model' = [model EXCEPT !.data = data]
                /\ IF HasPreviousRow(current_index)
                   THEN LET ui == load_row_into_ui(
                                      [UI EXCEPT !.current_index = current_index - 1],
                                      data, current_index - 1)
                        IN  /\ SetOverview(ui)
                            /\ crashed' = ui.raised
                            /\ msg' = ""
                            /\ UNCHANGED overview
                   ELSE /\ msg' = "No previous row available."
                        /\ overview' = "Rejected"
                        /\ UNCHANGED <<crashed, current_index, error_combos,
                                       combos_enabled, detail_btn>>

save_and_previous_row ==
    /\ OverviewActive
    /\ out_file' = NoOutput
    /\ UNCHANGED <<csv_file_path, annotate_btn, save_btn, detailVars, edits>>
    /\ IF save_current_row_raises(model.data, current_index)
       THEN /\ crashed' = TRUE
            /\ msg' = ""
            /\ UNCHANGED <<model, overviewVars>>
       ELSE LET data == save_current_row(model.data, current_index, error_combos)
            IN  /\ model' = [model EXCEPT !.data = data]
                /\ IF HasPreviousRow(current_index)
                   THEN LET ui == load_row_into_ui(
                                      [UI EXCEPT !.current_index = current_index - 1],
                                      data, current_index - 1)
                        IN  /\ SetOverview(ui)
                            /\ crashed' = ui.raised
                            /\ msg' = ""
                            /\ UNCHANGED overview
                   ELSE /\ msg' = "No previous row available."
                        /\ UNCHANGED <<crashed, overviewVars>>

finish_all ==
    /\ OverviewActive
    /\ out_file' = NoOutput
    /\ msg' = ""
    /\ UNCHANGED <<csv_file_path, annotate_btn, save_btn, detailVars, edits,
                   current_index, error_combos, combos_enabled, detail_btn>>
    /\ IF save_current_row_raises(model.data, current_index)
       THEN /\ crashed' = TRUE
            /\ UNCHANGED <<model, overview>>
       ELSE /\ model' = [model EXCEPT
                            !.data = save_current_row(model.data, current_index, error_combos)]
            /\ overview' = "Accepted"
            /\ UNCHANGED crashed

\* a close that writes the combo boxes into the row first, as finish_all does
OverviewReject_saving ==
    /\ OverviewActive
    /\ overview' = "Rejected"
    /\ msg' = ""
    /\ out_file' = NoOutput
    /\ model' = [model EXCEPT
                    !.data = save_current_row(model.data, current_index, error_combos)]
    /\ UNCHANGED <<csv_file_path, annotate_btn, save_btn, crashed, current_index,
                   error_combos, combos_enabled, detail_btn, detailVars, edits>>

\* the user closes the row overview: QDialog.reject()
OverviewReject ==
    /\ OverviewActive
    /\ overview' = "Rejected"
    /\ msg' = ""
    /\ out_file' = NoOutput
    /\ UNCHANGED <<mainVars, crashed, current_index, error_combos, combos_enabled,
                   detail_btn, detailVars, edits>>

----------------------------------------------------------------------------
(* DetailedClassificationWindow *)

\* the initial_values argument: None, or a dict
NoneValues == [is_none |-> TRUE, dict |-> NoSeed]
Values(d) == [is_none |-> FALSE, dict |-> d]

\* self.responses[err_key] = value
SetItem(d, key, value) == [k \in DOMAIN d \cup {key} |-> IF k = key THEN value ELSE d[k]]

\* load_current_question: the combo box shows the stored answer of the question
\* at idx, "No" when there is none or it is no item; past the end it closes
load_current_question(resp, idx, combo) ==
    IF 0 <= idx /\ idx < NumErrors
    THEN [answer_combo |-> setCurrentText(combo,
                              NormalizeToken(get(resp, ERROR_COLUMNS[idx + 1], NO))),
          closed |-> FALSE]
    ELSE [answer_combo |-> combo, closed |-> TRUE]

\* self.responses after the current answer was recorded
Recorded(resp, idx, combo) ==
    IF 0 <= idx /\ idx < NumErrors THEN SetItem(resp, ERROR_COLUMNS[idx + 1], combo) ELSE resp

\* the end of the questions off by one
AllAnswered_late(idx) == idx > NumErrors

\* if self.current_idx >= len(self.error_keys)
AllAnswered(idx) == idx >= NumErrors

\* a constructor that does not take the initial_values over
DetailedClassificationWindow_unseeded(initial_values) ==
    /\ current_answers' = initial_values
    /\ responses' = AllNo
    /\ current_idx' = 0
    /\ answer_combo' = NO
    /\ detail' = "exec"

\* DetailedClassificationWindow.__init__ and the start of exec_()
DetailedClassificationWindow(initial_values) ==
    LET resp == IF ~initial_values.is_none THEN initial_values.dict ELSE AllNo
        q == load_current_question(resp, 0, NO)
    IN  /\ current_answers' = initial_values
        /\ responses' = resp
        /\ current_idx' = 0
        /\ answer_combo' = q.answer_combo
        /\ detail' = IF q.closed THEN "Rejected" ELSE "exec"

DetailActive == ~crashed /\ detail = "exec"

open_detailed_classification ==
    /\ OverviewActive
    /\ out_file' = NoOutput
    /\ UNCHANGED <<mainVars, overviewVars, edits>>
    /\ IF current_index < 0 \/ current_index >= Len(model.data)
       THEN /\ msg' = ""
            /\ UNCHANGED <<crashed, detailVars>>
       ELSE IF is_correct_raises(model.data[current_index + 1])
       THEN /\ crashed' = TRUE
            /\ msg' = ""
            /\ UNCHANGED detailVars
       ELSE IF is_correct(model.data[current_index + 1])
       THEN /\ msg' = "This row is correct. No classification needed."
            /\ UNCHANGED <<crashed, detailVars>>
       ELSE /\ DetailedClassificationWindow(Values(error_combos))
            /\ msg' = ""
            /\ UNCHANGED crashed

\* the user picks an item of the answer combo box
SelectAnswer(val) ==
    /\ DetailActive
    /\ current_idx < NumErrors /\ ERROR_COLUMNS[current_idx + 1] \in EditedColumns
    /\ edits < MaxEdits
    /\ val # answer_combo
    /\ answer_combo' = val
    /\ edits' = edits + 1
    /\ msg' = ""
    /\ out_file' = NoOutput
    /\ UNCHANGED <<mainVars, crashed, overviewVars, detail, current_answers,
                   responses, current_idx>>

\* next_question that returns to the first question after the last
next_question_wrapping ==
    /\ DetailActive
    /\ out_file' = NoOutput
    /\ UNCHANGED <<mainVars, crashed, overviewVars, current_answers, edits, detail>>
    /\ responses' = Recorded(responses, current_idx, answer_combo)
    /\ current_idx' = IF AllAnswered(current_idx + 1) THEN 0 ELSE current_idx + 1
    /\ msg' = ""
    /\ answer_combo' = load_current_question(responses', current_idx', answer_combo).answer_combo

next_question ==
    /\ DetailActive
    /\ out_file' = NoOutput
    /\ UNCHANGED <<mainVars, crashed, overviewVars, current_answers, edits>>
    /\ responses' = Recorded(responses, current_idx, answer_combo)
    /\ current_idx' = current_idx + 1
    /\ IF AllAnswered(current_idx + 1)
       THEN /\ msg' = "All 9 questions answered."
            /\ detail' = "Accepted"
            /\ UNCHANGED answer_combo
       ELSE LET q == load_current_question(responses', current_idx + 1, answer_combo)
            IN  /\ msg' = ""
                /\ answer_combo' = q.answer_combo
                /\ detail' = IF q.closed THEN "Rejected" ELSE "exec"

finish ==
    /\ DetailActive
    /\ out_file' = NoOutput
    /\ msg' = ""
    /\ UNCHANGED <<mainVars, crashed, overviewVars, current_answers, current_idx,
                   answer_combo, edits>>
    /\ responses' = Recorded(responses, current_idx, answer_combo)
    /\ detail' = "Accepted"

\* the user closes the drill-down: QDialog.reject()
DetailReject ==
    /\ DetailActive
    /\ detail' = "Rejected"
    /\ msg' = ""
    /\ out_file' = NoOutput
    /\ UNCHANGED <<mainVars, crashed, overviewVars, current_answers, responses,
                   current_idx, answer_combo, edits>>

\* get_responses
get_responses == responses

\* final_responses[col] raises KeyError
final_responses_raises == \E c \in ErrorSet : c \notin DOMAIN get_responses

\* a return that takes the answer set of the dialog whatever its result
open_detailed_classification_return_any ==
    /\ ~crashed
    /\ detail \in {"Accepted", "Rejected"}
    /\ msg' = ""
    /\ out_file' = NoOutput
    /\ UNCHANGED <<mainVars, overview, current_index, combos_enabled, detail_btn, edits>>
    /\ IF overview = "exec"
       THEN IF final_responses_raises
            THEN /\ crashed' = TRUE
                 /\ UNCHANGED <<error_combos, detailVars>>
            ELSE /\ error_combos' = [c \in ErrorSet |->
                                        setCurrentText(error_combos[c], get_responses[c])]
                 /\ NoDetail
                 /\ UNCHANGED crashed
       ELSE /\ NoDetail
            /\ UNCHANGED <<crashed, error_combos>>

\* a return that also writes the accepted answer set into the row
open_detailed_classification_return_writing ==
    /\ ~crashed
    /\ detail \in {"Accepted", "Rejected"}
    /\ msg' = ""
    /\ out_file' = NoOutput
    /\ UNCHANGED <<csv_file_path, annotate_btn, save_btn, overview, current_index,
                   combos_enabled, detail_btn, edits>>
    /\ IF overview = "exec" /\ detail = "Accepted"
       THEN IF final_responses_raises
            THEN /\ crashed' = TRUE
                 /\ UNCHANGED <<model, error_combos, detailVars>>
            ELSE /\ error_combos' = [c \in ErrorSet |->
                                        setCurrentText(error_combos[c], get_responses[c])]
                 /\ model' = [model EXCEPT
                                 !.data = save_current_row(model.data, current_index,
                                                           error_combos')]
                 /\ NoDetail
                 /\ UNCHANGED crashed
       ELSE /\ NoDetail
            /\ UNCHANGED <<model, crashed, error_combos>>

\* dialog.exec_() has returned to open_detailed_classification: an accepted
\* answer set goes into the combo boxes of the row overview, and the dialog is gone
open_detailed_classification_return ==
    /\ ~crashed
    /\ detail \in {"Accepted", "Rejected"}
    /\ msg' = ""
    /\ out_file' = NoOutput
    /\ UNCHANGED <<mainVars, overview, current_index, combos_enabled, detail_btn, edits>>
    /\ IF overview = "exec" /\ detail = "Accepted"
       THEN IF final_responses_raises
            THEN /\ crashed' = TRUE
                 /\ UNCHANGED <<error_combos, detailVars>>
            ELSE /\ error_combos' = [c \in ErrorSet |->
                                        setCurrentText(error_combos[c], get_responses[c])]
                 /\ NoDetail
                 /\ UNCHANGED crashed
       ELSE /\ NoDetail
            /\ UNCHANGED <<crashed, error_combos>>

----------------------------------------------------------------------------
Next ==
    \/ \E path \in Paths : load_csv(path)
    \/ save_csv
    \/ annotate_rows
    \/ annotate_rows_return
    \/ \E col \in EditedColumns, val \in ComboItems : SelectCombo(col, val)
    \/ save_and_next_row
    \/ save_and_previous_row
    \/ finish_all
    \/ OverviewReject
    \/ open_detailed_classification
    \/ \E val \in ComboItems : SelectAnswer(val)
    \/ next_question
    \/ finish
    \/ DetailReject
    \/ open_detailed_classification_return

Spec == Init /\ [][Next]_vars

----------------------------------------------------------------------------
(* The drill-down dialog on its own: DetailedClassificationWindow constructed  *)
(* with any initial_values, as its constructor allows, and no row overview     *)
(* behind it.                                                                  *)

AllYes == [c \in ErrorSet |-> YES]

Seeds ==
    {NoneValues,
     Values(NoSeed),
     Values([c \in {"Grammar"} |-> YES]),
     Values([c \in {"Factuality", "Arithmetic"} |-> IF c = "Arithmetic" THEN MAYBE ELSE YES]),
     Values(AllNo),
     Values(AllYes),
     Values([AllNo EXCEPT !["Redundancy"] = YES, !["Arithmetic"] = YES]),
     Values([AllYes EXCEPT !["Coherency"] = MAYBE])}

DetailConstruct(initial_values) ==
    /\ MainIdle
    /\ DetailedClassificationWindow(initial_values)
    /\ edits' = 0
    /\ msg' = ""
    /\ out_file' = NoOutput
    /\ UNCHANGED <<mainVars, crashed, overviewVars>>

NextDrill ==
    \/ \E initial_values \in Seeds : DetailConstruct(initial_values)
    \/ \E val \in ComboItems : SelectAnswer(val)
    \/ next_question
    \/ finish
    \/ DetailReject
    \/ open_detailed_classification_return

SpecDrill == Init /\ [][NextDrill]_vars

----------------------------------------------------------------------------
(* The row overview on its own: RowOverviewWindow constructed over the loaded  *)
(* rows with any row_number, as its constructor allows.                        *)

\* the row_number arguments: 1-based, from one before the first row to two
\* past the last row of the largest file
StartRows == 0..(MaxRows + 2)

\* RowOverviewWindow(csv_data, row_number) and the start of exec_()
OverviewConstruct(row_number) ==
    /\ MainIdle
    /\ ~model.none /\ model.data # <<>>
    /\ LET ui == RowOverviewWindow(model.data, row_number)
       IN  /\ SetOverview(ui)
           /\ overview' = "exec"
           /\ crashed' = ui.raised
    /\ msg' = ""
    /\ out_file' = NoOutput
    /\ UNCHANGED <<mainVars, detailVars, edits>>

NextOverview ==
    \/ \E path \in Paths : load_csv(path)
    \/ \E row_number \in StartRows : OverviewConstruct(row_number)
    \/ annotate_rows_return
    \/ \E col \in EditedColumns, val \in ComboItems : SelectCombo(col, val)
    \/ save_and_next_row
    \/ save_and_previous_row
    \/ finish_all
    \/ OverviewReject
    \/ open_detailed_classification
    \/ \E val \in ComboItems : SelectAnswer(val)
    \/ next_question
    \/ finish
    \/ DetailReject
    \/ open_detailed_classification_return

SpecOverview == Init /\ [][NextOverview]_vars

----------------------------------------------------------------------------
(* The properties *)

\* the is_correct cells of the input files that read "true" once trimmed and
\* lower-cased
TrueTokens == {STR_true, STR_True, STR_TRUE}

Locked(row) == "is_correct" \in DOMAIN row /\ row["is_correct"] \in TrueTokens

AllCategoriesNo(row) == \A c \in ErrorSet : c \in DOMAIN row /\ row[c] = NO

Canonical(val) == IF val = YES THEN YES ELSE NO

Loaded == ~model.none

NumRows == Len(model.data)

RowAt(i) == model.data[i + 1]

CursorInRange == 0 <= current_index /\ current_index < NumRows

\* a step of load_csv that replaces the Record Store
LoadStep == MainIdle /\ model' # model /\ load_csv(csv_file_path')

Commit == save_and_next_row \/ save_and_previous_row \/ finish_all

\* the non-blank lines of an input file, and the cell a line has in a column
InputLines(path) == SelectSeq(FileLines(path), LAMBDA l : l # <<>>)

HasCell(header, line, col) ==
    \E i \in 1..Len(header) : header[i] = col /\ i <= Len(line)

CellOf(header, line, col) ==
    line[CHOOSE i \in 1..Len(header) : header[i] = col]

\* C1 as stated. Lock invariant on stored data: in every state after a
\* successful load, every row whose is_correct reads "true" has all 9 category
\* fields equal to "No" in the Record Store, visited by the cursor or not.
C1_Original ==
    Loaded => \A i \in 1..NumRows : Locked(model.data[i]) => AllCategoriesNo(model.data[i])

\* C1, amended. Lock on commit: a commit (next, previous, finishAll) with the
\* cursor at a row whose is_correct reads "true" leaves all 9 category fields of
\* that row "No", and between two loads such a row is either left as it is or
\* becomes all "No"; so once all "No" it stays so.
C1_LockOnCommit ==
    [][/\ (OverviewActive /\ CursorInRange /\ Locked(RowAt(current_index)) /\ Commit)
            => AllCategoriesNo(model'.data[current_index + 1])
       /\ \/ /\ Len(model'.data) = NumRows
             /\ \A i \in 1..NumRows :
                   Locked(model.data[i])
                      => \/ model'.data[i] = model.data[i]
                         \/ AllCategoriesNo(model'.data[i])
          \/ LoadStep]_vars

\* a locked row that the input gave Grammar = Yes has been committed and is all "No"
C1_Witness ==
    /\ Loaded
    /\ \E i \in 1..NumRows :
          /\ Locked(model.data[i])
          /\ AllCategoriesNo(model.data[i])
          /\ i <= Len(InputLines(csv_file_path))
          /\ HasCell(FileHeader(csv_file_path), InputLines(csv_file_path)[i], "Grammar")
          /\ CellOf(FileHeader(csv_file_path), InputLines(csv_file_path)[i], "Grammar") = YES

\* C2 as stated. After load every row has the 13 required fields and each of
\* its 9 category fields holds exactly "Yes" or "No".
C2_Original ==
    Loaded => \A i \in 1..NumRows :
                 /\ Range(REQUIRED_COLUMNS) \subseteq DOMAIN model.data[i]
                 /\ \A c \in ErrorSet : model.data[i][c] \in {YES, NO}

\* C2, amended. After load every row has the 13 required fields, and a category
\* cell of the input is stored as the input has it, whatever the token; the
\* token is read as "Yes" or "No" only into the Working Answers, when the
\* annotation starts at the row or the cursor moves to it.
C2_LoadStoresTokens ==
    [][/\ LoadStep
             => LET lines == InputLines(csv_file_path')
                   IN  /\ Len(model'.data) = Len(lines)
                       /\ \A i \in 1..Len(lines) :
                             /\ Range(REQUIRED_COLUMNS) \subseteq DOMAIN model'.data[i]
                             /\ \A c \in ErrorSet :
                                   HasCell(model'.headers, lines[i], c)
                                      => model'.data[i][c] = CellOf(model'.headers, lines[i], c)
       /\ (/\ overview' = "exec" /\ ~crashed'
           /\ overview = "none" \/ current_index' # current_index
           /\ ~Locked(model'.data[current_index' + 1]))
                => \A c \in ErrorSet :
                      error_combos'[c] = Canonical(model'.data[current_index' + 1][c])]_vars

\* the cursor is at a row that stores Arithmetic = Maybe and shows "No" for it
C2_Witness ==
    /\ Loaded /\ overview = "exec" /\ ~crashed /\ CursorInRange
    /\ RowAt(current_index)["Arithmetic"] = MAYBE
    /\ error_combos["Arithmetic"] = NO

\* C3. Augmentation on load: every category name absent from the input header
\* is appended to the Field Set and every row holds "No" for it; with only the
\* 4 fixed fields in the header, the Field Set has 13 columns and every row has
\* all 9 category fields equal to "No".
C3_Original ==
    [][LoadStep
             => /\ \A c \in ErrorSet \ Range(FileHeader(csv_file_path')) :
                      /\ c \in Range(model'.headers)
                      /\ \A i \in 1..Len(model'.data) :
                            c \in DOMAIN model'.data[i] /\ model'.data[i][c] = NO
                /\ csv_file_path'.kind = "fixed"
                      => /\ Len(model'.headers) = 13
                         /\ \A i \in 1..Len(model'.data) : AllCategoriesNo(model'.data[i])]_vars

\* the output of save_csv comes from the Record Store as load left it
SavedUnannotated == out_file.written /\ model.data = LoadData(csv_file_path)

OutCell(i, col) == out_file.rows[i][CHOOSE k \in 1..Len(out_file.header) : out_file.header[k] = col]

RECURSIVE FirstSurplus(_, _, _)
FirstSurplus(header, lines, i) ==
    IF i > Len(lines) \/ Len(lines[i]) > Len(header) THEN i
    ELSE FirstSurplus(header, lines, i + 1)

C5_CursorBounds ==
    [][/\ (save_and_next_row /\ CursorInRange /\ current_index = NumRows - 1)
            => /\ current_index' = current_index
               /\ msg' = "No more rows to annotate."
       /\ (save_and_next_row /\ CursorInRange /\ current_index < NumRows - 1)
            => /\ current_index' = current_index + 1
               /\ msg' # "No more rows to annotate."
       /\ (save_and_previous_row /\ current_index = 0)
            => /\ current_index' = 0
               /\ msg' = "No previous row available."]_vars

\* next() was called at the last of 3 rows
C5_Witness ==
    /\ Loaded /\ NumRows = 3 /\ current_index = 2
    /\ msg = "No more rows to annotate."

\* previous() was called at row 0
C5_WitnessPrevious ==
    /\ Loaded /\ overview = "exec" /\ current_index = 0
    /\ msg = "No previous row available."

----------------------------------------------------------------------------
(* The drill-down *)

\* the drill-down was constructed with a value for each of the 9 categories
FullSeed == ~current_answers.is_none /\ DOMAIN current_answers.dict = ErrorSet

\* the category of index k (0-based, as current_idx)
Category(k) == ERROR_COLUMNS[k + 1]

\* C6. Drill-down totality: for every seed (full, partial or none), an accepted
\* drill-down returns exactly one value for each of the 9 categories, and "No"
\* for a category that was neither visited nor seeded.
C6_Original ==
    detail = "Accepted"
       => /\ DOMAIN get_responses = ErrorSet
          /\ \A k \in 0..(NumErrors - 1) :
                (k > current_idx /\ Category(k) \notin DOMAIN current_answers.dict)
                   => get_responses[Category(k)] = NO

\* C7. finishHere merge: with a seed for all 9 categories, finishHere() at
\* category j ends the drill-down accepted, and the returned set has the
\* selection of the moment for category j, what advance() recorded for every
\* category before j (each advance() records the selection of its moment and
\* leaves the other answers alone), and the seeded value for every category
\* after j.
C7_FinishHereMerge ==
    [][(DetailActive /\ FullSeed)
          => /\ finish
                => /\ detail' = "Accepted"
                   /\ current_idx' = current_idx
                   /\ DOMAIN responses' = ErrorSet
                   /\ \A k \in 0..(NumErrors - 1) :
                         /\ k > current_idx
                              => responses'[Category(k)] = current_answers.dict[Category(k)]
                         /\ k = current_idx => responses'[Category(k)] = answer_combo
                         /\ k < current_idx => responses'[Category(k)] = responses[Category(k)]
             /\ next_question
                => \A k \in 0..(NumErrors - 1) :
                      /\ k = current_idx => responses'[Category(k)] = answer_combo
                      /\ k # current_idx => responses'[Category(k)] = responses[Category(k)]]_vars

\* finishHere() after some advance() calls: an answer changed before, a seeded
\* "Yes" kept behind
C7_Witness ==
    /\ detail = "Accepted" /\ FullSeed
    /\ current_idx \in 1..(NumErrors - 2)
    /\ \E k \in 0..(NumErrors - 1) :
          k > current_idx /\ get_responses[Category(k)] = YES
    /\ \E k \in 0..(NumErrors - 1) :
          k <= current_idx /\ get_responses[Category(k)] # current_answers.dict[Category(k)]

\* C8. Drill-down completeness: the ninth advance(), and no other, reports
\* completion and ends the drill-down accepted; every advance() records the
\* selection of its moment and leaves the other answers alone, so that the
\* returned set holds for each of the 9 categories the value recorded for it.
C8_Completeness ==
    [][(DetailActive /\ next_question)
          => /\ (detail' = "Accepted") = (current_idx = NumErrors - 1)
             /\ (msg' = "All 9 questions answered.") = (current_idx = NumErrors - 1)
             /\ detail' \in {"exec", "Accepted"}
             /\ current_idx' = current_idx + 1
             /\ responses'[Category(current_idx)] = answer_combo
             /\ \A k \in 0..(NumErrors - 1) :
                   /\ k < current_idx
                        => /\ Category(k) \in DOMAIN responses
                           /\ responses[Category(k)] \in ComboItems
                           /\ responses'[Category(k)] = responses[Category(k)]
                   /\ (k > current_idx /\ Category(k) \in DOMAIN responses)
                        => responses'[Category(k)] = responses[Category(k)]
             /\ current_idx = NumErrors - 1
                  => /\ DOMAIN responses' = ErrorSet
                     /\ \A c \in ErrorSet : responses'[c] \in ComboItems]_vars

\* nine advance() calls on a partial seed, one answer changed on the way
C8_Witness ==
    /\ detail = "Accepted" /\ current_idx = NumErrors
    /\ msg = "All 9 questions answered."
    /\ ~current_answers.is_none /\ DOMAIN current_answers.dict # ErrorSet
    /\ DOMAIN get_responses = ErrorSet
    /\ get_responses["Arithmetic"] = YES

\* C9. Drill-down is refused on locked rows: openDrilldown at a row whose
\* is_correct reads "true" starts no drill-down, shows the "skipped" notice and
\* leaves the Working Answers and the Record Store as they are.
C9_LockedRefused ==
    [][(OverviewActive /\ CursorInRange /\ Locked(RowAt(current_index))
          /\ open_detailed_classification)
          => /\ detail' = "none"
             /\ msg' = "This row is correct. No classification needed."
             /\ UNCHANGED <<model, overviewVars, detailVars, crashed>>]_vars

\* the notice was shown at a locked row the cursor moved to
C9_Witness ==
    /\ overview = "exec" /\ detail = "none" /\ current_index > 0
    /\ Locked(RowAt(current_index))
    /\ msg = "This row is correct. No classification needed."

\* the files that do not load
FailingPaths == {p \in Paths : p.kind \in {"noflag", "unreadable", "empty", "corrupt"}}

LoadFailureMessages == {"Failed to load CSV", "CSV is missing required columns"}

\* C10. Failed load keeps prior state: a load that fails (a fixed column
\* missing after augmentation, or the file unreadable or unparsable) leaves the
\* Record Set, the Field Set, the remembered path and the enabled state of
\* annotate and save as they were; a failed first load leaves no data loaded.
C10_FailedLoadKeepsState ==
    [][\A path \in FailingPaths :
          (MainIdle /\ load_csv(path))
             => /\ msg' \in LoadFailureMessages
                /\ UNCHANGED <<model, csv_file_path, annotate_btn, save_btn>>]_vars

\* a load failed after an earlier one had succeeded
C10_Witness ==
    /\ Loaded /\ annotate_btn /\ save_btn /\ NumRows > 0
    /\ msg \in LoadFailureMessages

\* a first load failed
C10_WitnessFirst ==
    /\ ~Loaded /\ ~annotate_btn /\ ~save_btn /\ csv_file_path = NoPath
    /\ msg \in LoadFailureMessages

----------------------------------------------------------------------------
(* The cursor of the row overview *)

\* C11. Cursor position invariant: in every state of an active row overview,
\* started at the default row or at a row number the caller gave, the cursor
\* index satisfies 0 <= index < number of rows.
C11_Original ==
    (overview = "exec" /\ ~crashed) => (0 <= current_index /\ current_index < NumRows)

\* C12. Cancel discards only the in-progress row: when the row overview is
\* closed without finishAll, the Record Store stays as the last commit (or the
\* load) left it, through the close and the return to the main window: the
\* Working Answers of the row under the cursor are not written and the rows
\* committed before keep their committed values.
C12_CancelDiscards ==
    [][/\ (OverviewActive /\ OverviewReject)
            => /\ overview' = "Rejected"
               /\ model' = model
       /\ (overview = "Rejected" /\ annotate_rows_return)
            => /\ overview' = "none"
               /\ model' = model]_vars

\* cancelled with a changed answer that the row under the cursor does not
\* store, another row having been committed with other values than the load
\* gave it
C12_Witness ==
    /\ Loaded /\ overview = "Rejected" /\ msg = "" /\ ~crashed
    /\ CursorInRange
    /\ ~Locked(RowAt(current_index))
    /\ \E c \in ErrorSet : error_combos[c] # Canonical(RowAt(current_index)[c])
    /\ \E i \in 1..NumRows :
          i # current_index + 1 /\ model.data[i] # LoadData(csv_file_path)[i]

\* every selection of the nine combo boxes
WorkingAnswers == [ErrorSet -> ComboItems]

\* C13. Commit idempotence: for every row of the Record Store, locked or not,
\* and every Working Answers value, committing the same answers to the same row
\* twice in a row leaves the whole Record Store as committing once does. (Every
\* Record Store the program reaches is the store of a state in which the main
\* window is idle, after the load or after the row overview has returned; the
\* commit is applied to those.)
C13_CommitIdempotent ==
    (Loaded /\ MainIdle /\ msg = "" /\ ~out_file.written)
       => \A i \in 0..(NumRows - 1) :
             ~save_current_row_raises(model.data, i)
                => \A combos \in WorkingAnswers :
                      LET once == save_current_row(model.data, i, combos)
                      IN  /\ ~save_current_row_raises(once, i)
                          /\ save_current_row(once, i, combos) = once

\* a commit that left the cursor where it was, at an unlocked row with a "Yes"
\* and with a locked row in the Record Store: the next commit repeats it
C13_Witness ==
    /\ Loaded /\ overview = "exec" /\ ~crashed /\ CursorInRange
    /\ msg = "No previous row available."
    /\ ~Locked(RowAt(current_index))
    /\ \E c \in ErrorSet : error_combos[c] = YES /\ RowAt(current_index)[c] = YES
    /\ \E i \in 1..NumRows : Locked(model.data[i])

\* C14. Empty dataset: annotate_rows with a Record Set of zero rows, or with
\* nothing loaded, starts no row overview and creates no cursor; it reports
\* "no rows" when the set is empty (and only then), and leaves the Record Store
\* as it is.
C14_EmptyData ==
    [][(MainIdle /\ annotate_rows)
          => /\ (model.none \/ model.data = <<>>)
                  => /\ overview' = "none"
                     /\ UNCHANGED <<model, overviewVars, detailVars, crashed>>
             /\ (msg' = "No rows to annotate.") = (~model.none /\ model.data = <<>>)
             /\ (~model.none /\ model.data # <<>>) => overview' = "exec"]_vars

\* annotation was requested on a loaded file without rows
C14_Witness ==
    /\ Loaded /\ NumRows = 0 /\ MainIdle
    /\ msg = "No rows to annotate."

\* a row with a text in each of the 4 fixed fields: load_row_into_ui shows it
Complete(row) == \A f \in Range(FIXED_COLUMNS) : f \in DOMAIN row /\ row[f] # None

C16_CommitBeforeMove ==
    [][(OverviewActive /\ CursorInRange /\ Commit)
          => LET row == model'.data[current_index + 1]
             IN  /\ ErrorSet \subseteq DOMAIN row
                 /\ IF Locked(RowAt(current_index))
                    THEN AllCategoriesNo(row)
                    ELSE \A c \in ErrorSet : row[c] = error_combos[c]]_vars

\* next() at the last row, which is unlocked, has written a "Yes" that the
\* load had not given the row
C16_Witness ==
    /\ Loaded /\ CursorInRange /\ current_index = NumRows - 1
    /\ msg = "No more rows to annotate."
    /\ ~Locked(RowAt(current_index))
    /\ \E c \in ErrorSet :
          /\ RowAt(current_index)[c] = YES
          /\ LoadData(csv_file_path)[current_index + 1][c] # YES

\* the cursor arrives at a row: the row overview opens, or next() or previous()
\* moves
Arrive ==
    \/ MainIdle /\ annotate_rows /\ overview' = "exec"
    \/ /\ OverviewActive /\ current_index' # current_index
       /\ (save_and_next_row \/ save_and_previous_row)

\* C17. loadRow normalisation: when the cursor has arrived at a row (at the
\* start or by next() or previous()), the Working Answers of an unlocked row
\* are, per category, the stored value if it is exactly "Yes" or "No" and "No"
\* for any other or missing value, and those of a locked row are all "No":
\* they are a function of the row alone, with nothing carried over from the
\* row displayed before. (The row has its 4 fixed fields: it can be displayed.)
C17_LoadRowNormalises ==
    [][(Arrive /\ CursorInRange' /\ Complete(model'.data[current_index' + 1]))
          => LET row == model'.data[current_index' + 1]
             IN  /\ ~crashed' /\ overview' = "exec"
                 /\ \A c \in ErrorSet :
                       error_combos'[c] =
                          IF Locked(row) THEN NO
                          ELSE IF c \in DOMAIN row THEN Canonical(row[c])
                          ELSE NO]_vars

\* next() has moved from a row that showed and stores Arithmetic = "Yes" to an
\* unlocked row that stores "Maybe" for it, and "No" is shown
C17_Witness ==
    /\ Loaded /\ overview = "exec" /\ ~crashed /\ NumRows = 2 /\ current_index = 1
    /\ msg = ""
    /\ model.data[1]["Arithmetic"] = YES
    /\ ~Locked(model.data[2])
    /\ model.data[2]["Arithmetic"] = MAYBE
    /\ error_combos["Arithmetic"] = NO

----------------------------------------------------------------------------
(* The drill-down over the row overview *)

\* C18. The drill-down never writes the Record Store: opening it, every
\* advance(), finishHere() and its closing, accepted or cancelled, leave every
\* Row Record (and the cursor) as they are; an accepted result changes the
\* Working Answers of the cursor only, a cancelled one not even those; the
\* Record Store changes by a commit of the cursor (or a load) alone.
C18_DrilldownFrame ==
    [][/\ (detail # "none" \/ detail' # "none")
            => UNCHANGED <<model, overview, current_index, crashed>>
       /\ (detail = "exec" \/ (detail = "none" /\ detail' # "none"))
            => UNCHANGED error_combos
       /\ (overview = "exec" /\ open_detailed_classification_return)
            => /\ detail' = "none"
               /\ IF detail = "Accepted"
                  THEN \A c \in ErrorSet : error_combos'[c] = responses[c]
                  ELSE UNCHANGED error_combos
       /\ model' # model => (LoadStep \/ (OverviewActive /\ Commit))]_vars

\* a drill-down was accepted after an advance(), with a "Yes" that neither the
\* Working Answers it started from nor the row under the cursor have
C18_Witness ==
    /\ overview = "exec" /\ detail = "Accepted" /\ ~crashed /\ CursorInRange
    /\ current_idx >= 1
    /\ \E c \in ErrorSet :
          /\ responses[c] = YES
          /\ current_answers.dict[c] = NO
          /\ RowAt(current_index)[c] # YES

\* C19. The drill-down is forward-only and bounded: while it is active its
\* category index k satisfies 0 <= k < 9; it starts at 0, never decreases, and
\* grows by exactly 1 on each advance() and on nothing else; so the ninth
\* advance() at the latest leaves no active drill-down.
C19_ForwardOnly ==
    [][/\ detail' = "exec" => (0 <= current_idx' /\ current_idx' < NumErrors)
       /\ (detail # "exec" /\ detail' = "exec") => current_idx' = 0
       /\ detail = "exec"
            => /\ current_idx' >= current_idx
               /\ current_idx' = IF next_question THEN current_idx + 1 ELSE current_idx
               /\ (next_question /\ current_idx = NumErrors - 1) => detail' # "exec"]_vars

\* eight advance() calls have led to the last category, the drill-down still
\* active
C19_Witness ==
    /\ detail = "exec" /\ ~crashed
    /\ current_idx = NumErrors - 1

\* the fields of a row other than the 9 categories
OtherFields(row) == DOMAIN row \ ErrorSet

\* C20. Commit frame: a commit made by next(), previous() or finishAll()
\* changes at most the 9 category fields of the row under the cursor; the
\* other fields of that row, every field of every other row, the Field Set, the
\* number of rows and their order are left as they are by every operation of
\* the cursor and of the drill-down: the Record Store changes by a load or by
\* such a commit only.
C20_CommitFrame ==
    [][model' # model
          => \/ LoadStep
             \/ /\ OverviewActive /\ CursorInRange /\ Commit
                /\ model'.none = model.none
                /\ model'.headers = model.headers
                /\ Len(model'.data) = NumRows
                /\ \A i \in 1..NumRows :
                      IF i = current_index + 1
                      THEN /\ OtherFields(model'.data[i]) = OtherFields(model.data[i])
                           /\ \A k \in OtherFields(model.data[i]) :
                                 model'.data[i][k] = model.data[i][k]
                      ELSE model'.data[i] = model.data[i]]_vars

\* a commit has set the categories of a locked row of 3 to "No": its is_correct
\* is as the input wrote it, and the row after it, with its surplus cell, is as
\* loaded
C20_Witness ==
    /\ Loaded /\ NumRows = 3 /\ ~crashed
    /\ model.data[2] # LoadData(csv_file_path)[2]
    /\ model.data[2]["is_correct"] = STR_True
    /\ AllCategoriesNo(model.data[2])
    /\ RestKey \in DOMAIN model.data[3]
    /\ model.data[3] = LoadData(csv_file_path)[3]

\* C21. A cancelled drill-down changes nothing: the drill-down starts from a
\* copy of the Working Answers of the cursor; while it is open, whatever is
\* selected and recorded in it, and when it is closed without having been
\* accepted, the Working Answers stay exactly what they were when it was
\* opened, and the cursor index (and the Record Store) are unchanged.
C21_CancelledDrilldown ==
    [][/\ (overview = "exec" /\ detail = "none" /\ detail' # "none")
            => /\ ~current_answers'.is_none
               /\ current_answers'.dict = error_combos
               /\ UNCHANGED <<error_combos, current_index, model>>
       /\ (overview = "exec" /\ detail = "exec")
            => UNCHANGED <<error_combos, current_index, model, current_answers>>
       /\ (overview = "exec" /\ detail = "Rejected")
            => /\ open_detailed_classification_return
               /\ detail' = "none" /\ ~crashed'
               /\ error_combos' = current_answers.dict
               /\ UNCHANGED <<error_combos, current_index, model, overview,
                              combos_enabled, detail_btn>>]_vars

\* a drill-down was cancelled after an advance() that recorded another answer
\* than the Working Answers hold
C21_Witness ==
    /\ overview = "exec" /\ detail = "Rejected" /\ ~crashed /\ CursorInRange
    /\ current_idx >= 1
    /\ \E k \in 0..(current_idx - 1) : responses[Category(k)] # error_combos[Category(k)]
    /\ error_combos = current_answers.dict

====
